---- MODULE Spec2Model ----
(***************************************************************************)
(* A model of src/app.py, the "User Analysis App": a script that loads two *)
(* uploaded tables, asks for a filter selection per file, counts distinct  *)
(* users per (date, location) pair, merges the two result tables and       *)
(* offers them for download.                                               *)
(*                                                                         *)
(* Python strings are sequences of character codes, so that sorted() can   *)
(* be modelled as the lexicographic order it is: the digits '0'..'9' are   *)
(* the codes 0..9 and the letters 'a'..'z' the codes 10..35 (digits sort   *)
(* before letters, as their code points do).                               *)
(*                                                                         *)
(* A cell of a table is a record [k, n, s]: k = "str" with the text s,     *)
(* k = "num" with the integer n, or k = "nan" for a missing cell.          *)
(***************************************************************************)
EXTENDS Integers, Sequences, FiniteSets, TLC

VARIABLES
    pc,            \* position of the script run
    slot,          \* the two file_uploader widgets (session state)
    reset_button,  \* st.sidebar.button("Reset") of the run
    file,          \* the script's file1, file2 of the run
    df,            \* analyze_file's df
    sel,           \* analyze_file's local_dates, location_names, ssid, location_type
    cur,           \* which file analyze_file was called with (0: none)
    results,       \* the script's results1, results2
    merged_df,     \* the script's merged_df
    out,           \* what the run has put on the page, in page order
    links,         \* the download links the run has put on the page
    exc,           \* the exception that ended the run ("" for none)
    calls,         \* how often each function ran, per file
    cache,         \* the st.cache_data store of get_unique_values
    uniq           \* the values get_unique_values returned, call by call

vars == <<pc, slot, reset_button, file, df, sel, cur, results, merged_df, out,
          links, exc, calls, cache, uniq>>

----------------------------------------------------------------------------
(* Bounds *)

\* longest table given to get_unique_values
MaxRows == 3

\* longest table given to calculate_distinct_count, the example table aside
MaxAggRows == 2

\* longest table in an uploaded file
MaxFileRows == 2

\* longest result table given to the merge
MaxResultRows == 2

----------------------------------------------------------------------------
(* Values and strings *)

S(chars) == [k |-> "str", n |-> 0, s |-> chars]

N(i) == [k |-> "num", n |-> i, s |-> <<>>]

NaN == [k |-> "nan", n |-> 0, s |-> <<>>]

\* "network"
Network == <<23, 14, 29, 32, 24, 27, 20>>

\* str(int): the decimal digits
RECURSIVE Digits(_)
Digits(i) == IF i < 10 THEN <<i>> ELSE Digits(i \div 10) \o <<i % 10>>

\* one element of Series.astype(str): "nan" for a missing cell
AsStr(v) ==
    CASE v.k = "str" -> v.s
      [] v.k = "num" -> Digits(v.n)
      [] OTHER -> <<23, 10, 23>>

\* str < str: code point by code point, a proper prefix first
RECURSIVE StrLess(_, _)
StrLess(a, b) ==
    IF b = <<>> THEN FALSE
    ELSE IF a = <<>> THEN TRUE
    ELSE IF Head(a) # Head(b) THEN Head(a) < Head(b)
    ELSE StrLess(Tail(a), Tail(b))

\* one element of (Series == x) for a str x: a number or a missing cell
\* never equals a str
PyEq(v, x) == v.k = "str" /\ v.s = x

\* one element of Series.isin(values) for a list of str
IsIn(v, values) == \E i \in 1..Len(values) : PyEq(v, values[i])

----------------------------------------------------------------------------
(* Tables *)

Cols == {"Local Date", "Location Name", "Location Type", "SSID", "User Name"}

Row(d, l, t, s, u) ==
    [c \in Cols |->
        CASE c = "Local Date" -> d
          [] c = "Location Name" -> l
          [] c = "Location Type" -> t
          [] c = "SSID" -> s
          [] OTHER -> u]

\* a DataFrame; ok = FALSE is None
Frame(cols, rows) == [ok |-> TRUE, cols |-> cols, rows |-> rows]

None == [ok |-> FALSE, cols |-> {}, rows |-> <<>>]

\* df[column]
Series(d, c) == [i \in 1..Len(d.rows) |-> d.rows[i][c]]

SeqsUpTo(X, n) == UNION {[1..m -> X] : m \in 0..n}

\* lists of distinct members of X, in any order (what a multiselect returns)
Picks(X) == {p \in SeqsUpTo(X, Cardinality(X)) :
                \A i, j \in 1..Len(p) : i # j => p[i] # p[j]}

Range(q) == {q[i] : i \in 1..Len(q)}

----------------------------------------------------------------------------
(* get_unique_values *)

\* Series.unique(): the values in order of first appearance
RECURSIVE Unique(_)
Unique(q) ==
    IF q = <<>> THEN <<>>
    ELSE LET front == Unique(SubSeq(q, 1, Len(q) - 1))
             last == q[Len(q)]
         IN IF last \in Range(front) THEN front ELSE Append(front, last)

\* insert x into an ascending list, after the entries that are not greater
RECURSIVE Insert(_, _)
Insert(x, q) ==
    IF q = <<>> THEN <<x>>
    ELSE IF StrLess(x, Head(q)) THEN <<x>> \o q
    ELSE <<Head(q)>> \o Insert(x, Tail(q))

\* a get_unique_values that leaves out sorted()
Unsorted(q) == q

\* sorted(list of str)
RECURSIVE Sorted(_)
Sorted(q) ==
    IF q = <<>> THEN <<>>
    ELSE Insert(q[Len(q)], Sorted(SubSeq(q, 1, Len(q) - 1)))

AsTypeStr(q) == [i \in 1..Len(q) |-> AsStr(q[i])]

\* the body of get_unique_values; the column is present
get_unique_values(d, c) == Sorted(Unique(AsTypeStr(Series(d, c))))

----------------------------------------------------------------------------
(* calculate_distinct_count *)

\* a count of the rows instead of the distinct values
CountRows(q) == Len(SelectSeq(q, LAMBDA v : v.k # "nan"))

\* Series.nunique(): the number of distinct values, missing cells left out
nunique(q) == Len(Unique(SelectSeq(q, LAMBDA v : v.k # "nan")))

\* df[(df['Local Date'] == local_date) & (df['Location Name'] == location_name)
\*    & (df['Location Type'] == location_type) & (df['SSID'].isin(ssid))]
Filter(d, local_date, location_name, ssid, location_type) ==
    Frame(d.cols,
          SelectSeq(d.rows,
                    LAMBDA r : /\ PyEq(r["Local Date"], local_date)
                               /\ PyEq(r["Location Name"], location_name)
                               /\ PyEq(r["Location Type"], location_type)
                               /\ IsIn(r["SSID"], ssid)))

\* the one-row frame of an iteration; the date is still the value passed in
ResultRow(d, local_date, location_name, ssid, location_type) ==
    [LocalDate |-> S(local_date),
     LocationName |-> location_name,
     DistinctCount |->
        nunique(Series(Filter(d, local_date, location_name, ssid, location_type),
                       "User Name"))]

\* a loop that emits no row for a pair without a user
RECURSIVE InnerLoopSkipZero(_, _, _, _, _)
InnerLoopSkipZero(d, local_date, location_names, ssid, location_type) ==
    IF location_names = <<>> THEN <<>>
    ELSE LET row == ResultRow(d, local_date, Head(location_names), ssid, location_type)
         IN (IF row.DistinctCount = 0 THEN <<>> ELSE <<row>>)
            \o InnerLoopSkipZero(d, local_date, Tail(location_names), ssid,
                                 location_type)

\* for location_name in location_names
RECURSIVE InnerLoop(_, _, _, _, _)
InnerLoop(d, local_date, location_names, ssid, location_type) ==
    IF location_names = <<>> THEN <<>>
    ELSE <<ResultRow(d, local_date, Head(location_names), ssid, location_type)>>
         \o InnerLoop(d, local_date, Tail(location_names), ssid, location_type)

\* for local_date in local_dates
RECURSIVE OuterLoop(_, _, _, _, _)
OuterLoop(d, local_dates, location_names, ssid, location_type) ==
    IF local_dates = <<>> THEN <<>>
    ELSE InnerLoop(d, Head(local_dates), location_names, ssid, location_type)
         \o OuterLoop(d, Tail(local_dates), location_names, ssid, location_type)

\* results_df['Local Date'] = results_df['Local Date'].astype(str)
DateAsStr(res) ==
    [i \in 1..Len(res) |-> [LocalDate |-> AsStr(res[i].LocalDate),
                            LocationName |-> res[i].LocationName,
                            DistinctCount |-> res[i].DistinctCount]]

\* the value calculate_distinct_count returns when it raises nothing
calculate_distinct_count(d, local_dates, location_names, ssid, location_type) ==
    DateAsStr(OuterLoop(d, local_dates, location_names, ssid, location_type))

\* the first iteration reads all five columns: a missing one is a KeyError
CalculateRaises(d, local_dates, location_names) ==
    local_dates # <<>> /\ location_names # <<>> /\ ~(Cols \subseteq d.cols)

----------------------------------------------------------------------------
(* the merge *)

\* drop_duplicates(keep='last'): a row equal to a later row is dropped
RECURSIVE DropDuplicatesKeepLast(_)
DropDuplicatesKeepLast(q) ==
    IF q = <<>> THEN <<>>
    ELSE IF Head(q) \in Range(Tail(q))
         THEN DropDuplicatesKeepLast(Tail(q))
         ELSE <<Head(q)>> \o DropDuplicatesKeepLast(Tail(q))

\* DataFrame.drop_duplicates(): a row equal to an earlier row is dropped
RECURSIVE drop_duplicates(_)
drop_duplicates(q) ==
    IF q = <<>> THEN <<>>
    ELSE LET front == SubSeq(q, 1, Len(q) - 1)
         IN IF q[Len(q)] \in Range(front)
            THEN drop_duplicates(front)
            ELSE Append(drop_duplicates(front), q[Len(q)])

\* pd.concat([results1, results2]).drop_duplicates()
Merge(results1, results2) == drop_duplicates(results1 \o results2)

\* DataFrame.empty
Empty(res) == Len(res) = 0

----------------------------------------------------------------------------
(* State shared by the specifications *)

NoFile == [present |-> FALSE, parses |-> FALSE, table |-> None]

NoSel == [local_dates |-> <<>>, location_names |-> <<>>, ssid |-> <<>>,
          location_type |-> <<>>]

\* the run-local state before anything ran
Fresh ==
    /\ reset_button = FALSE
    /\ file = [k \in 1..2 |-> NoFile]
    /\ cur = 0
    /\ results = [k \in 1..2 |-> <<>>]
    /\ merged_df = <<>>
    /\ out = <<>>
    /\ links = <<>>
    /\ exc = ""
    /\ calls = [k \in 1..2 |-> {}]

----------------------------------------------------------------------------
(* SpecUnique: get_unique_values, with its st.cache_data decorator, applied *)
(* to bounded tables                                                        *)

\* how often get_unique_values is called on a table
MaxCalls == 2

\* "1", 1, 2, 10 and a missing cell: two values with one string form, and
\* numbers whose string order is not their numeric order
UValues == {S(<<1>>), N(1), N(2), N(10), NaN}

URows == {Row(v, w, S(<<10>>), S(<<10>>), S(<<10>>)) :
            v \in UValues, w \in {S(<<11>>), N(2)}}

UTables == {Frame(Cols, rows) : rows \in SeqsUpTo(URows, MaxRows)}

\* the columns get_user_inputs asks for
AskedCols == {"Local Date", "Location Name", "SSID", "Location Type"}

InitUnique ==
    /\ pc = "call"
    /\ slot = [k \in 1..2 |-> NoFile]
    /\ Fresh
    /\ df \in UTables
    /\ sel = NoSel
    /\ cache = {}
    /\ uniq = <<>>

\* a call that finds (df, column) in the store returns the stored value
CacheHit(c) ==
    /\ pc = "call"
    /\ Len(uniq) < MaxCalls
    /\ \E e \in cache : e.df = df /\ e.column = c
    /\ uniq' = Append(uniq, [column |-> c,
                            value |-> (CHOOSE e \in cache :
                                         e.df = df /\ e.column = c).value])
    /\ UNCHANGED <<pc, slot, reset_button, file, df, sel, cur, results,
                   merged_df, out, links, exc, calls, cache>>

\* a call that does not runs the body and stores what it returns
CacheMiss(c) ==
    /\ pc = "call"
    /\ Len(uniq) < MaxCalls
    /\ ~ \E e \in cache : e.df = df /\ e.column = c
    /\ uniq' = Append(uniq, [column |-> c, value |-> get_unique_values(df, c)])
    /\ cache' = cache \cup {[df |-> df, column |-> c,
                             value |-> get_unique_values(df, c)]}
    /\ UNCHANGED <<pc, slot, reset_button, file, df, sel, cur, results,
                   merged_df, out, links, exc, calls>>

NextUnique == \E c \in AskedCols : CacheHit(c) \/ CacheMiss(c)

SpecUnique == InitUnique /\ [][NextUnique]_vars

----------------------------------------------------------------------------
(* SpecAgg: calculate_distinct_count applied to bounded tables and          *)
(* selections                                                               *)

\* rows of dates "1", "2", location "a", types "a", "b", SSIDs "a", "b" and
\* users "a", "b" or a missing user name
AggRows == {Row(S(d), S(<<10>>), S(t), S(s), u) :
              d \in {<<1>>, <<2>>}, t \in {<<10>>, <<11>>},
              s \in {<<10>>, <<11>>}, u \in {S(<<10>>), S(<<11>>), NaN}}

\* two rows sharing date, location, type, SSID and user, and one new row
ExampleRows ==
    << Row(S(<<1>>), S(<<10>>), S(<<10>>), S(<<10>>), S(<<10>>)),
       Row(S(<<1>>), S(<<10>>), S(<<10>>), S(<<10>>), S(<<10>>)),
       Row(S(<<1>>), S(<<10>>), S(<<10>>), S(<<11>>), S(<<11>>)) >>

AggTables == {Frame(Cols, rows) :
                rows \in SeqsUpTo(AggRows, MaxAggRows) \cup {ExampleRows}}

\* non-empty selections; location "b" is in no row
AggSels == {[local_dates |-> ds, location_names |-> ls, ssid |-> ss,
             location_type |-> ty] :
              ds \in Picks({<<1>>, <<2>>}) \ {<<>>},
              ls \in {<< <<10>> >>, << <<10>>, <<11>> >>, << <<11>>, <<10>> >>},
              ss \in {<< <<10>> >>, << <<10>>, <<11>> >>},
              ty \in {<<10>>, <<11>>}}

InitAgg ==
    /\ pc = "call"
    /\ slot = [k \in 1..2 |-> NoFile]
    /\ Fresh
    /\ df \in AggTables
    /\ sel \in AggSels
    /\ cache = {}
    /\ uniq = <<>>

AggCall ==
    /\ pc = "call"
    /\ pc' = "done"
    /\ results' = [results EXCEPT ![1] =
                      calculate_distinct_count(df, sel.local_dates,
                          sel.location_names, sel.ssid, sel.location_type)]
    /\ calls' = [calls EXCEPT ![1] = {"calculate_distinct_count"}]
    /\ UNCHANGED <<slot, reset_button, file, df, sel, cur, merged_df, out, links,
                   exc, cache, uniq>>

NextAgg == AggCall

SpecAgg == InitAgg /\ [][NextAgg]_vars

----------------------------------------------------------------------------
(* SpecMerge: the merge applied to bounded result tables                    *)

ResultRows == [LocalDate : {<<1>>, <<2>>}, LocationName : {<<10>>, <<11>>},
               DistinctCount : {3, 5}]

InitMerge ==
    /\ pc = "call"
    /\ slot = [k \in 1..2 |-> NoFile]
    /\ reset_button = FALSE
    /\ file = [k \in 1..2 |-> NoFile]
    /\ cur = 0
    /\ results \in [1..2 -> SeqsUpTo(ResultRows, MaxResultRows)]
    /\ merged_df = <<>>
    /\ out = <<>>
    /\ links = <<>>
    /\ exc = ""
    /\ calls = [k \in 1..2 |-> {}]
    /\ df = None
    /\ sel = NoSel
    /\ cache = {}
    /\ uniq = <<>>

MergeCall ==
    /\ pc = "call"
    /\ pc' = "done"
    /\ merged_df' = Merge(results[1], results[2])
    /\ UNCHANGED <<slot, reset_button, file, df, sel, cur, results, out, links,
                   exc, calls, cache, uniq>>

NextMerge == MergeCall

SpecMerge == InitMerge /\ [][NextMerge]_vars

----------------------------------------------------------------------------
(* Properties of get_unique_values (SpecUnique) *)

\* a is before b in lexicographic order: they agree on the first k codes,
\* and then a ends and b does not, or a's next code is the smaller one
LexBefore(a, b) ==
    \E k \in 0..Len(a) :
        /\ k <= Len(b)
        /\ \A i \in 1..k : a[i] = b[i]
        /\ \/ k = Len(a) /\ k < Len(b)
           \/ k < Len(a) /\ k < Len(b) /\ a[k + 1] < b[k + 1]

\* C6: every sequence get_unique_values returned is strictly ascending in
\* lexicographic string order (so has no duplicate), holds exactly the string
\* forms of the cells of the column, and equals what every other call on the
\* same table and column returned.
C6_UniqueSortedStrings ==
    \A i \in 1..Len(uniq) :
        LET q == uniq[i].value
            c == uniq[i].column
        IN /\ \A a, b \in 1..Len(q) : a < b => LexBefore(q[a], q[b])
           /\ Range(q) = {AsStr(df.rows[r][c]) : r \in 1..Len(df.rows)}
           /\ \A j \in 1..Len(uniq) : uniq[j].column = c => uniq[j].value = q

\* the column holds 1, "1", and 10: the two calls on it returned <<"1", "10">>
C6_Witness ==
    /\ Len(uniq) = 2
    /\ uniq[1].column = "Local Date"
    /\ uniq[2].column = "Local Date"
    /\ {N(1), S(<<1>>), N(10)} \subseteq Range(Series(df, "Local Date"))
    /\ uniq[2].value = << <<1>>, <<1, 0>> >>

----------------------------------------------------------------------------
(* Properties of calculate_distinct_count (SpecAgg) *)

\* the rows of df that a pair (date, location) selects
Matching(date, location) ==
    {i \in 1..Len(df.rows) :
        /\ df.rows[i]["Local Date"] = S(date)
        /\ df.rows[i]["Location Name"] = S(location)
        /\ df.rows[i]["Location Type"] = S(sel.location_type)
        /\ \E s \in Range(sel.ssid) : df.rows[i]["SSID"] = S(s)}

\* the user names of those rows; a missing cell is no user name
Users(date, location) ==
    {df.rows[i]["User Name"] : i \in Matching(date, location)} \ {NaN}

\* C1: the Distinct Count of every emitted row is the number of distinct user
\* names among the rows of the table with the row's date and location, the
\* chosen location type and one of the chosen SSIDs.
C1_CountIsDistinctUsers ==
    pc = "done" =>
        \A i \in 1..Len(results[1]) :
            results[1][i].DistinctCount =
                Cardinality(Users(results[1][i].LocalDate,
                                  results[1][i].LocationName))

\* the three-row example: three matching rows, two users, count 2
C1_Witness ==
    /\ pc = "done"
    /\ df.rows = ExampleRows
    /\ sel.ssid = << <<10>>, <<11>> >>
    /\ sel.location_type = <<10>>
    /\ \E i \in 1..Len(results[1]) :
        /\ results[1][i].LocalDate = <<1>>
        /\ results[1][i].LocationName = <<10>>
        /\ Cardinality(Matching(<<1>>, <<10>>)) = 3
        /\ results[1][i].DistinctCount = 2

\* C2: the result has one row per pair of dates x locations, the pair
\* (local_dates[i], location_names[j]) at position (i - 1) * |locations| + j,
\* whether or not a row of the table matches it.
C2_OneRowPerPairInOrder ==
    pc = "done" =>
        LET D == Len(sel.local_dates)
            L == Len(sel.location_names)
        IN /\ Len(results[1]) = D * L
           /\ \A i \in 1..D : \A j \in 1..L :
                /\ results[1][(i - 1) * L + j].LocalDate = sel.local_dates[i]
                /\ results[1][(i - 1) * L + j].LocationName = sel.location_names[j]

\* two dates and two locations: four rows, one of a pair that matches no row
C2_Witness ==
    /\ pc = "done"
    /\ Len(sel.local_dates) = 2
    /\ Len(sel.location_names) = 2
    /\ Len(results[1]) = 4
    /\ \E i \in 1..4 :
        /\ results[1][i].DistinctCount = 0
        /\ Matching(results[1][i].LocalDate, results[1][i].LocationName) = {}
    /\ \E i \in 1..4 : results[1][i].DistinctCount > 0

----------------------------------------------------------------------------
(* Properties of the merge (SpecMerge) *)

Concat == results[1] \o results[2]

\* the positions of the concatenation whose row equals no earlier row
FirstOccurrences == {i \in 1..Len(Concat) : \A j \in 1..(i - 1) : Concat[j] # Concat[i]}

\* C4: the merged table is the concatenation results1 then results2 without
\* the rows that equal an earlier row: its k-th row is the row at the k-th
\* first occurrence, so no two of its rows are equal, every row of either
\* input is in it, and the kept rows are in concatenation order.
C4_MergeKeepsFirstOccurrences ==
    pc = "done" =>
        /\ Len(merged_df) = Cardinality(FirstOccurrences)
        /\ \A i \in FirstOccurrences :
              merged_df[Cardinality({j \in FirstOccurrences : j <= i})] = Concat[i]
        /\ \A a, b \in 1..Len(merged_df) : a # b => merged_df[a] # merged_df[b]
        /\ Range(merged_df) = Range(results[1]) \cup Range(results[2])

\* the example: [(d1,l1,3)] merged with [(d1,l1,3),(d2,l2,5)]
C4_Witness ==
    LET r1 == [LocalDate |-> <<1>>, LocationName |-> <<10>>, DistinctCount |-> 3]
        r2 == [LocalDate |-> <<2>>, LocationName |-> <<11>>, DistinctCount |-> 5]
    IN /\ pc = "done"
       /\ results[1] = <<r1>>
       /\ results[2] = <<r1, r2>>
       /\ merged_df = <<r1, r2>>

----------------------------------------------------------------------------
(* Spec: the script, run after run.  Every interaction with the page        *)
(* (an upload, a removal, a press of Reset, a change of a widget) starts    *)
(* a run of the whole script; a run goes through the script's statements in *)
(* order and ends at pc = "idle", normally or by an uncaught exception.     *)
(* The st.cache_data stores return what the body would compute for the same *)
(* arguments (see SpecUnique), so the runs call the bodies.  The "Show      *)
(* Table" and "Show Chart" checkboxes of visualize_results choose how the   *)
(* results appear on the page, not whether they do; out records the         *)
(* subheader visualize_results always writes.                               *)

\* rows of the tables in uploaded files: the location name is "a" or the
\* number 1
FileRows == {Row(S(<<1>>), l, S(Network), S(<<10>>), S(<<10>>)) :
               l \in {S(<<10>>), N(1)}}

\* a table has all five columns or lacks one of them
ColSets == {Cols} \cup {Cols \ {c} : c \in Cols}

Restrict(r, cols) == [c \in cols |-> r[c]]

FileTables ==
    {Frame(cols, [i \in 1..Len(rows) |-> Restrict(rows[i], cols)]) :
        cols \in ColSets, rows \in SeqsUpTo(FileRows, MaxFileRows)}

\* what can be uploaded: a file that does not parse, or one that parses to a table
Uploads == {[present |-> TRUE, parses |-> FALSE, table |-> None]}
           \cup {[present |-> TRUE, parses |-> TRUE, table |-> d] : d \in FileTables}

\* a load_data that reports no error when parsing raises
LoadDataSilent(f) ==
    IF f.parses THEN [df |-> f.table, error |-> FALSE]
    ELSE [df |-> None, error |-> FALSE]

\* load_data: the table, or None and an st.error message when parsing raises
load_data(f) ==
    IF f.parses THEN [df |-> f.table, error |-> FALSE]
    ELSE [df |-> None, error |-> TRUE]

\* the exception get_user_inputs raises on a table: a KeyError at the first
\* column that is missing, an IndexError at location_type_options[0] when
\* the table has no row and "network" is no option
GetUserInputsRaises(d) ==
    IF ~(AskedCols \subseteq d.cols) THEN "KeyError"
    ELSE IF Network \notin Range(get_unique_values(d, "Location Type"))
            /\ Len(get_unique_values(d, "Location Type")) = 0 THEN "IndexError"
    ELSE ""

\* the selections get_user_inputs can return: all dates or any dates picked,
\* any locations and SSIDs picked, one location type
UserInputs(d) ==
    LET all_dates == get_unique_values(d, "Local Date")
    IN {[local_dates |-> IF select_all_dates THEN all_dates ELSE ds,
         location_names |-> ls, ssid |-> ss, location_type |-> ty] :
            select_all_dates \in BOOLEAN,
            ds \in Picks(Range(all_dates)),
            ls \in Picks(Range(get_unique_values(d, "Location Name"))),
            ss \in Picks(Range(get_unique_values(d, "SSID"))),
            ty \in Range(get_unique_values(d, "Location Type"))}

\* a test that leaves out the SSIDs
DatesAndLocations(s) == s.local_dates # <<>> /\ s.location_names # <<>>

\* if local_dates and location_names and ssid
SelectionComplete(s) ==
    s.local_dates # <<>> /\ s.location_names # <<>> /\ s.ssid # <<>>

\* a test that is content with one file
EitherUploaded(f) == f[1].present \/ f[2].present

\* if file1 is not None and file2 is not None
BothUploaded(f) == f[1].present /\ f[2].present

\* a test that is content with one non-empty result
EitherNonEmpty(res) == ~Empty(res[1]) \/ ~Empty(res[2])

\* if not results1.empty and not results2.empty
BothNonEmpty(res) == ~Empty(res[1]) /\ ~Empty(res[2])

\* download_link: the link to the table in the given file type
download_link(d, filetype, filename) ==
    [filetype |-> filetype, filename |-> filename, table |-> d]

Init ==
    /\ pc = "top"
    /\ slot = [k \in 1..2 |-> NoFile]
    /\ Fresh
    /\ df = None
    /\ sel = NoSel
    /\ cache = {}
    /\ uniq = <<>>

\* the state a run starts in: nothing of the run before is left but the widgets
StartRun(newSlot, pressed) ==
    /\ pc = "idle"
    /\ pc' = "top"
    /\ slot' = newSlot
    /\ reset_button' = pressed
    /\ file' = [k \in 1..2 |-> NoFile]
    /\ df' = None
    /\ sel' = NoSel
    /\ cur' = 0
    /\ results' = [k \in 1..2 |-> <<>>]
    /\ merged_df' = <<>>
    /\ out' = <<>>
    /\ links' = <<>>
    /\ exc' = ""
    /\ calls' = [k \in 1..2 |-> {}]
    /\ UNCHANGED <<cache, uniq>>

\* the user puts a file into an uploader
Upload(k, f) == StartRun([slot EXCEPT ![k] = f], FALSE)

\* the user takes the file out of an uploader
Remove(k) == slot[k].present /\ StartRun([slot EXCEPT ![k] = NoFile], FALSE)

\* the user presses Reset
PressReset == StartRun(slot, TRUE)

\* the user changes a checkbox, a multiselect or the selectbox
ChangeWidget == StartRun(slot, FALSE)

\* lines 107-119 and 129-130: the uploaders, the Reset button, the branch
ScriptTop ==
    /\ pc = "top"
    /\ LET f == IF reset_button THEN [k \in 1..2 |-> NoFile] ELSE slot
       IN /\ file' = f
          /\ IF BothUploaded(f)
             THEN pc' = "load" /\ cur' = 1 /\ out' = Append(out, <<"Analysis for File", 1>>)
             ELSE pc' = "idle" /\ cur' = 0
                  /\ out' = Append(out, <<"Please upload two files.", 0>>)
    /\ UNCHANGED <<slot, reset_button, df, sel, results, merged_df, links, exc,
                   calls, cache, uniq>>

\* analyze_file, lines 88-90 and 97: load_data and the test of its result
LoadData ==
    /\ pc = "load"
    /\ calls' = [calls EXCEPT ![cur] = @ \cup {"load_data"}]
    /\ df' = load_data(file[cur]).df
    /\ out' = IF load_data(file[cur]).error THEN Append(out, <<"Error loading data", cur>>)
              ELSE out
    /\ IF load_data(file[cur]).df.ok
       THEN pc' = "inputs" /\ UNCHANGED results
       ELSE pc' = "return" /\ results' = [results EXCEPT ![cur] = <<>>]
    /\ UNCHANGED <<slot, reset_button, file, sel, cur, merged_df, links, exc,
                   cache, uniq>>

\* analyze_file, lines 91-92 and 97: get_user_inputs and the test of the selection
GetUserInputs ==
    /\ pc = "inputs"
    /\ calls' = [calls EXCEPT ![cur] = @ \cup {"get_user_inputs"}]
    /\ IF GetUserInputsRaises(df) # ""
       THEN /\ exc' = GetUserInputsRaises(df)
            /\ pc' = "idle"
            /\ UNCHANGED <<sel, results>>
       ELSE /\ sel' \in UserInputs(df)
            /\ IF SelectionComplete(sel')
               THEN pc' = "calculate" /\ UNCHANGED results
               ELSE pc' = "return" /\ results' = [results EXCEPT ![cur] = <<>>]
            /\ UNCHANGED exc
    /\ UNCHANGED <<slot, reset_button, file, df, cur, merged_df, out, links,
                   cache, uniq>>

\* analyze_file, line 93
CalculateDistinctCount ==
    /\ pc = "calculate"
    /\ calls' = [calls EXCEPT ![cur] = @ \cup {"calculate_distinct_count"}]
    /\ IF CalculateRaises(df, sel.local_dates, sel.location_names)
       THEN exc' = "KeyError" /\ pc' = "idle" /\ UNCHANGED results
       ELSE /\ results' = [results EXCEPT ![cur] =
                              calculate_distinct_count(df, sel.local_dates,
                                  sel.location_names, sel.ssid, sel.location_type)]
            /\ pc' = "visualize"
            /\ UNCHANGED exc
    /\ UNCHANGED <<slot, reset_button, file, df, sel, cur, merged_df, out, links,
                   cache, uniq>>

\* analyze_file, lines 94-95: the results of the file are put on the page
VisualizeResults ==
    /\ pc = "visualize"
    /\ calls' = [calls EXCEPT ![cur] = @ \cup {"visualize_results"}]
    /\ out' = Append(out, <<"Results for", cur>>)
    /\ pc' = "return"
    /\ UNCHANGED <<slot, reset_button, file, df, sel, cur, results, merged_df,
                   links, exc, cache, uniq>>

\* analyze_file returns to the script (lines 116-119): its locals are gone
AnalyzeReturn ==
    /\ pc = "return"
    /\ df' = None
    /\ sel' = NoSel
    /\ IF cur = 1
       THEN pc' = "load" /\ cur' = 2 /\ out' = Append(out, <<"Analysis for File", 2>>)
       ELSE pc' = "merge" /\ cur' = 0 /\ UNCHANGED out
    /\ UNCHANGED <<slot, reset_button, file, results, merged_df, links, exc,
                   calls, cache, uniq>>

\* lines 121-127: the merged results and the two download links
MergeResults ==
    /\ pc = "merge"
    /\ pc' = "idle"
    /\ IF BothNonEmpty(results)
       THEN /\ merged_df' = Merge(results[1], results[2])
            /\ out' = Append(out, <<"Results for", 0>>)
            /\ links' = <<download_link(merged_df', "csv", "merged_results.csv"),
                          download_link(merged_df', "xlsx", "merged_results.xlsx")>>
       ELSE UNCHANGED <<merged_df, out, links>>
    /\ UNCHANGED <<slot, reset_button, file, df, sel, cur, results, exc, calls,
                   cache, uniq>>

Next ==
    \/ \E k \in 1..2 : \E f \in Uploads : Upload(k, f)
    \/ \E k \in 1..2 : Remove(k)
    \/ PressReset
    \/ ChangeWidget
    \/ ScriptTop
    \/ LoadData
    \/ GetUserInputs
    \/ CalculateDistinctCount
    \/ VisualizeResults
    \/ AnalyzeReturn
    \/ MergeResults

Spec == Init /\ [][Next]_vars

----------------------------------------------------------------------------
(* Properties of the script (Spec) *)

Shown(what, k) == Cardinality({i \in 1..Len(out) : out[i] = <<what, k>>})

\* C3: calculate_distinct_count is entered only with dates, locations and
\* SSIDs all selected; when get_user_inputs returned a selection with one of
\* them empty, analyze_file returns the empty table, having run no
\* aggregation and put no results on the page; and a non-empty table is
\* returned only for a selection with all three non-empty.
C3_IncompleteSelectionIsNoOp ==
    LET incomplete == sel.local_dates = <<>> \/ sel.location_names = <<>>
                      \/ sel.ssid = <<>>
    IN /\ pc \in {"calculate", "visualize"} => ~incomplete
       /\ (pc = "return" /\ "get_user_inputs" \in calls[cur] /\ incomplete) =>
            /\ "calculate_distinct_count" \notin calls[cur]
            /\ "visualize_results" \notin calls[cur]
            /\ Shown("Results for", cur) = 0
            /\ results[cur] = <<>>
       /\ (pc = "return" /\ results[cur] # <<>>) => ~incomplete

\* dates and locations are selected, no SSID is: the empty table is returned
C3_Witness ==
    /\ pc = "return"
    /\ "get_user_inputs" \in calls[cur]
    /\ sel.local_dates # <<>>
    /\ sel.location_names # <<>>
    /\ sel.ssid = <<>>
    /\ Len(df.rows) > 0
    /\ results[cur] = <<>>

\* C5: a merged table, merged results on the page or a download link exist
\* only in a run with a file in both slots, Reset not pressed and a non-empty
\* result table for each of the two files.
C5_MergeOnlyForTwoNonEmptyResults ==
    (merged_df # <<>> \/ links # <<>> \/ Shown("Results for", 0) > 0) =>
        /\ slot[1].present
        /\ slot[2].present
        /\ ~reset_button
        /\ results[1] # <<>>
        /\ results[2] # <<>>

\* a run that ended with the merged table and the CSV and XLSX links
C5_Witness ==
    /\ pc = "idle"
    /\ merged_df # <<>>
    /\ Shown("Results for", 0) = 1
    /\ Len(links) = 2
    /\ links[1].filetype = "csv"
    /\ links[2].filetype = "xlsx"
    /\ links[1].table = merged_df

\* C7: for a file whose parsing failed, load_data has put exactly one error
\* message on the page and returned None; analyze_file has then called
\* neither get_user_inputs nor calculate_distinct_count nor
\* visualize_results, its result is the empty table, and it ended by no
\* exception.
C7_LoadFailureIsReportedAndSkipped ==
    \A k \in 1..2 :
        ("load_data" \in calls[k] /\ ~file[k].parses) =>
            /\ Shown("Error loading data", k) = 1
            /\ calls[k] = {"load_data"}
            /\ Shown("Results for", k) = 0
            /\ results[k] = <<>>
            /\ cur = k => (exc = "" /\ ~df.ok)

\* the first file did not parse, the run went on to the second file and
\* ended with its results
C7_Witness ==
    /\ pc = "idle"
    /\ exc = ""
    /\ file[1].present
    /\ ~file[1].parses
    /\ Shown("Error loading data", 1) = 1
    /\ results[2] # <<>>

\* C8: no run ends by an exception out of get_user_inputs or
\* calculate_distinct_count.
C8_NoUncaughtException == exc = ""

\* C9 as claimed: a run with a file in exactly one slot, Reset not pressed,
\* loads that file.
C9_OneFileIsAnalysed ==
    \A k \in 1..2 :
        (pc = "idle" /\ ~reset_button /\ slot[k].present /\ ~slot[3 - k].present)
            => "load_data" \in calls[k]

\* C9 as amended: a run with a file in exactly one slot loads and analyses no
\* file and asks for two files; a file is loaded only in a run with a file in
\* both slots and Reset not pressed.
C9_AnalysisNeedsTwoFiles ==
    /\ \A k \in 1..2 :
        (pc = "idle" /\ slot[k].present /\ ~slot[3 - k].present) =>
            /\ calls = [j \in 1..2 |-> {}]
            /\ results = [j \in 1..2 |-> <<>>]
            /\ out = << <<"Please upload two files.", 0>> >>
    /\ \A k \in 1..2 :
        calls[k] # {} => slot[1].present /\ slot[2].present /\ ~reset_button

\* a table with a row is in the first slot, the second slot is empty: the
\* run ended with the request for two files
C9_Witness ==
    /\ pc = "idle"
    /\ ~reset_button
    /\ slot[1].present
    /\ slot[1].parses
    /\ slot[1].table.cols = Cols
    /\ Len(slot[1].table.rows) > 0
    /\ ~slot[2].present
    /\ out = << <<"Please upload two files.", 0>> >>

\* the rows of df whose string forms a pair (date, location) selects
MatchingAsStr(date, location) ==
    {i \in 1..Len(df.rows) :
        /\ AsStr(df.rows[i]["Local Date"]) = date
        /\ AsStr(df.rows[i]["Location Name"]) = location
        /\ AsStr(df.rows[i]["Location Type"]) = sel.location_type
        /\ AsStr(df.rows[i]["SSID"]) \in Range(sel.ssid)}

\* C10: in analyze_file, the count of every row of the result is the number
\* of distinct user names among the rows of the table whose string-coerced
\* date, location, type and SSID match the selection.
C10_CountMatchesStringSelection ==
    (pc \in {"visualize", "return"} /\ "calculate_distinct_count" \in calls[cur]) =>
        \A i \in 1..Len(results[cur]) :
            results[cur][i].DistinctCount =
                Cardinality({df.rows[j]["User Name"] :
                               j \in MatchingAsStr(results[cur][i].LocalDate,
                                                   results[cur][i].LocationName)}
                            \ {NaN})

====
